---- MODULE Spec2Model ----
(***************************************************************************)
(* Yandex Delivery MCP server: the tool registry and its handlers          *)
(* (index.ts), the upstream client adapter (client.ts, YandexDeliveryClient)*)
(* and the HTTP server with its discovery endpoints (server.ts).           *)
(*                                                                         *)
(* A run is one process.  The process entry point is either the registry   *)
(* module (stdio transport) or the HTTP server module.  Tool invocations   *)
(* reach the dispatcher (McpServer) through the stdio transport; HTTP      *)
(* requests are answered by the express routes of server.ts.               *)
(***************************************************************************)
EXTENDS Integers, Sequences, FiniteSets, TLC

(***************************************************************************)
(* Bounds of the model.                                                    *)
(***************************************************************************)
\* number of tool invocations received in one run
MaxInvocations == 2
\* number of tool invocations in flight at the same time
MaxInFlight == 2
\* number of HTTP requests served in one run
MaxHttpRequests == 2

Slots == 1..MaxInFlight

(***************************************************************************)
(* Tool registry: the server.tool(...) registrations of index.ts, in       *)
(* registration order.                                                     *)
(***************************************************************************)
RegisteredToolsMissingReturn ==
  << "calculate_offers", "create_claim", "get_claim_info", "accept_claim",
     "cancel_claim", "check_price", "get_tariffs", "get_driver_phone",
     "get_performer_position", "get_points_eta", "get_tracking_links",
     "get_confirmation_code", "get_proof_of_delivery", "edit_claim",
     "apply_changes_request", "apply_changes_result",
     "search_claims", "get_bulk_info", "get_claim_journal",
     "get_delivery_methods" >>

RegisteredTools ==
  << "calculate_offers", "create_claim", "get_claim_info", "accept_claim",
     "cancel_claim", "check_price", "get_tariffs", "get_driver_phone",
     "get_performer_position", "get_points_eta", "get_tracking_links",
     "get_confirmation_code", "get_proof_of_delivery", "edit_claim",
     "apply_changes_request", "apply_changes_result", "return_claim",
     "search_claims", "get_bulk_info", "get_claim_journal",
     "get_delivery_methods" >>

Range(seq) == { seq[j] : j \in 1..Len(seq) }

RegisteredNames == Range(RegisteredTools)

\* names a caller may send that no server.tool(...) call registers
UnknownNames == { "nonexistent_tool", "Get_Claim_Info" }

ToolNames == RegisteredNames \cup UnknownNames

(***************************************************************************)
(* Parameter schemas: the zod shape given to each server.tool(...), in the *)
(* order the shape lists its fields.  A field is required unless its       *)
(* schema ends in .optional().                                             *)
(***************************************************************************)
Req(f) == [f |-> f, optional |-> FALSE]
Opt(f) == [f |-> f, optional |-> TRUE]

ClaimIdOnly ==
  { "get_claim_info", "get_driver_phone", "get_performer_position",
    "get_points_eta", "get_tracking_links", "get_confirmation_code",
    "get_proof_of_delivery", "apply_changes_result" }

SchemaOf(name) ==
  CASE name = "calculate_offers" ->
         << Req("route_points"), Opt("requirements"), Opt("optional_return"),
            Opt("due") >>
    [] name = "create_claim" ->
         << Req("route_points"), Opt("items"), Opt("requirements"),
            Opt("emergency_contact"), Opt("comment"), Opt("due") >>
    [] name \in ClaimIdOnly -> << Req("claim_id") >>
    [] name = "accept_claim" -> << Req("claim_id"), Req("version") >>
    [] name = "cancel_claim" ->
         << Req("claim_id"), Req("version"), Opt("cancel_state") >>
    [] name = "check_price" ->
         << Req("route_points"), Opt("requirements"), Opt("optional_return") >>
    [] name = "get_tariffs" -> << Opt("start_point"), Opt("end_point") >>
    [] name = "edit_claim" ->
         << Req("claim_id"), Req("version"), Opt("items"), Opt("route_points"),
            Opt("comment") >>
    [] name = "apply_changes_request" -> << Req("claim_id"), Req("changes") >>
    [] name = "return_claim" ->
         << Req("claim_id"), Req("version"), Opt("point_id") >>
    [] name = "search_claims" ->
         << Opt("offset"), Opt("limit"), Opt("cursor"), Opt("created_from"),
            Opt("created_to"), Opt("statuses"), Opt("phone") >>
    [] name = "get_bulk_info" -> << Req("claim_ids") >>
    [] name = "get_claim_journal" -> << Req("claim_id"), Opt("cursor") >>
    [] name = "get_delivery_methods" -> << Opt("start_point") >>
    [] OTHER -> << >>

\* accept_claim registered with version: z.number().optional()
SchemaAcceptVersionOptional(name) ==
  IF name = "accept_claim" THEN << Req("claim_id"), Opt("version") >>
  ELSE SchemaOf(name)

Schema(name) == SchemaOf(name)

SchemaFields(name) == { e.f : e \in Range(Schema(name)) }
RequiredFields(name) == { e.f : e \in { x \in Range(Schema(name)) : ~x.optional } }
OptionalFields(name) == SchemaFields(name) \ RequiredFields(name)

(***************************************************************************)
(* JSON values.  A value is a tagged record; an object keeps its members   *)
(* in insertion order, as a JavaScript object does.  JUndefined is the     *)
(* JavaScript undefined of an argument that was not supplied.              *)
(*                                                                         *)
(* Every record of this module lists its fields in the order in which the  *)
(* field names first occur in the module, which is the order TLC keeps     *)
(* them in: a record is then already in normal form when it is built.      *)
(***************************************************************************)
JNull == [t |-> "null"]
JUndefined == [t |-> "undefined"]
JBool(b) == [t |-> "bool", b |-> b]
JNum(n) == [t |-> "num", n |-> n, negzero |-> FALSE]
JNegZero == [t |-> "num", n |-> 0, negzero |-> TRUE]
JStr(s) == [t |-> "str", s |-> s]
JArr(elems) == [t |-> "arr", a |-> elems]
JObj(members) == [t |-> "obj", o |-> members]
Member(key, val) == [k |-> key, v |-> val]

(***************************************************************************)
(* JSON text, as a sequence of tokens: punctuation, whitespace (a newline  *)
(* followed by n spaces, or one space), string and number literals, the    *)
(* literals null/true/false, and characters that are not JSON.             *)
(***************************************************************************)
Punct(s) == [n |-> 0, s |-> s, k |-> "p"]
Newline(n) == [n |-> n, s |-> "\n", k |-> "ws"]
Space == [n |-> 1, s |-> " ", k |-> "ws"]
StrTok(s) == [n |-> 0, s |-> s, k |-> "str"]
NumTok(n) == [n |-> n, s |-> "", k |-> "num"]
NegZeroTok == [n |-> 0, s |-> "-0", k |-> "num"]
LitTok(s) == [n |-> 0, s |-> s, k |-> "lit"]
JunkTok(s) == [n |-> 0, s |-> s, k |-> "junk"]

\* JSON.stringify(value, null, gap): gap = 0 is the compact form
RECURSIVE Serialize(_, _, _)
RECURSIVE SerializeElems(_, _, _, _)
RECURSIVE SerializeMembers(_, _, _, _)

\* the members JSON.stringify writes: those whose value is not undefined
RECURSIVE Defined(_)
Defined(members) ==
  IF members = <<>> THEN <<>>
  ELSE IF Head(members).v = JUndefined THEN Defined(Tail(members))
       ELSE <<Head(members)>> \o Defined(Tail(members))

Break(gap, level) == IF gap = 0 THEN <<>> ELSE <<Newline(gap * level)>>

SerializeElems(elems, gap, level, first) ==
  IF elems = <<>> THEN <<>>
  ELSE (IF first THEN <<>> ELSE <<Punct(",")>>)
       \o Break(gap, level)
       \o Serialize(Head(elems), gap, level)
       \o SerializeElems(Tail(elems), gap, level, FALSE)

SerializeMembers(members, gap, level, first) ==
  IF members = <<>> THEN <<>>
  ELSE (IF first THEN <<>> ELSE <<Punct(",")>>)
       \o Break(gap, level)
       \o <<StrTok(Head(members).k), Punct(":")>>
       \o (IF gap = 0 THEN <<>> ELSE <<Space>>)
       \o Serialize(Head(members).v, gap, level)
       \o SerializeMembers(Tail(members), gap, level, FALSE)

Serialize(v, gap, level) ==
  CASE v.t = "null" -> <<LitTok("null")>>
    [] v.t = "undefined" -> <<LitTok("null")>>   \* only reached inside an array
    [] v.t = "bool" -> <<LitTok(IF v.b THEN "true" ELSE "false")>>
    [] v.t = "num" -> <<NumTok(v.n)>>             \* -0 is written as 0
    [] v.t = "str" -> <<StrTok(v.s)>>
    [] v.t = "arr" ->
         IF v.a = <<>> THEN <<Punct("["), Punct("]")>>
         ELSE <<Punct("[")>> \o SerializeElems(v.a, gap, level + 1, TRUE)
              \o Break(gap, level) \o <<Punct("]")>>
    [] v.t = "obj" ->
         IF Defined(v.o) = <<>> THEN <<Punct("{"), Punct("}")>>
         ELSE <<Punct("{")>> \o SerializeMembers(Defined(v.o), gap, level + 1, TRUE)
              \o Break(gap, level) \o <<Punct("}")>>

StringifyCompact(v) == Serialize(v, 0, 0)

Stringify(v, gap) == Serialize(v, gap, 0)

(***************************************************************************)
(* JSON.parse / Response.json(): a recursive-descent parse of the token    *)
(* text.  The result is [ok, val]; ok = FALSE is the SyntaxError.          *)
(***************************************************************************)
ParseFail == [val |-> JNull, ok |-> FALSE, next |-> 0]
ParseOk(v, next) == [val |-> v, ok |-> TRUE, next |-> next]

RECURSIVE SkipWs(_, _)
SkipWs(text, i) ==
  IF i <= Len(text) /\ text[i].k = "ws" THEN SkipWs(text, i + 1) ELSE i

\* a repeated key keeps its first position and takes the later value
PutMember(members, key, val) ==
  IF \E j \in 1..Len(members) : members[j].k = key
  THEN [ j \in 1..Len(members) |->
           IF members[j].k = key THEN Member(key, val) ELSE members[j] ]
  ELSE Append(members, Member(key, val))

RECURSIVE ParseValue(_, _)
RECURSIVE ParseElems(_, _, _)
RECURSIVE ParseMembers(_, _, _)

ParseValue(text, i0) ==
  LET i == SkipWs(text, i0) IN
  IF i > Len(text) THEN ParseFail
  ELSE LET tok == text[i] IN
       CASE tok.k = "lit" ->
              ParseOk(IF tok.s = "null" THEN JNull ELSE JBool(tok.s = "true"),
                      i + 1)
         [] tok.k = "str" -> ParseOk(JStr(tok.s), i + 1)
         [] tok.k = "num" ->
              ParseOk(IF tok.s = "-0" THEN JNegZero ELSE JNum(tok.n), i + 1)
         [] tok = Punct("[") ->
              LET j == SkipWs(text, i + 1) IN
              IF j <= Len(text) /\ text[j] = Punct("]")
              THEN ParseOk(JArr(<<>>), j + 1)
              ELSE ParseElems(text, i + 1, <<>>)
         [] tok = Punct("{") ->
              LET j == SkipWs(text, i + 1) IN
              IF j <= Len(text) /\ text[j] = Punct("}")
              THEN ParseOk(JObj(<<>>), j + 1)
              ELSE ParseMembers(text, i + 1, <<>>)
         [] OTHER -> ParseFail

\* the elements after "[" or after ",": value ( "," value )* "]"
ParseElems(text, i0, acc) ==
  LET r == ParseValue(text, i0) IN
  IF ~r.ok THEN ParseFail
  ELSE LET j == SkipWs(text, r.next) IN
       IF j > Len(text) THEN ParseFail
       ELSE IF text[j] = Punct(",")
            THEN ParseElems(text, j + 1, Append(acc, r.val))
            ELSE IF text[j] = Punct("]")
                 THEN ParseOk(JArr(Append(acc, r.val)), j + 1)
                 ELSE ParseFail

\* the members after "{" or after ",": string ":" value ( "," ... )* "}"
ParseMembers(text, i0, acc) ==
  LET i == SkipWs(text, i0) IN
  IF i > Len(text) \/ text[i].k # "str" THEN ParseFail
  ELSE LET c == SkipWs(text, i + 1) IN
       IF c > Len(text) \/ text[c] # Punct(":") THEN ParseFail
       ELSE LET r == ParseValue(text, c + 1) IN
            IF ~r.ok THEN ParseFail
            ELSE LET j == SkipWs(text, r.next) IN
                 IF j > Len(text) THEN ParseFail
                 ELSE IF text[j] = Punct(",")
                      THEN ParseMembers(text, j + 1,
                                        PutMember(acc, text[i].s, r.val))
                      ELSE IF text[j] = Punct("}")
                           THEN ParseOk(JObj(PutMember(acc, text[i].s, r.val)),
                                        j + 1)
                           ELSE ParseFail

JsonParse(text) ==
  LET r == ParseValue(text, 1) IN
  IF r.ok /\ SkipWs(text, r.next) = Len(text) + 1
  THEN [val |-> r.val, ok |-> TRUE]
  ELSE [val |-> JNull, ok |-> FALSE]

(***************************************************************************)
(* Arguments of a tools/call: a JSON object.  GetMember is the JavaScript  *)
(* property read obj.key (undefined when the key is absent).               *)
(***************************************************************************)
HasMember(obj, key) ==
  obj.t = "obj" /\ \E j \in 1..Len(obj.o) : obj.o[j].k = key

GetMember(obj, key) ==
  IF HasMember(obj, key)
  THEN (CHOOSE m \in Range(obj.o) : m.k = key).v
  ELSE JUndefined

\* the object holding the listed keys of obj, absent ones as undefined
Pick(obj, keys) ==
  JObj([ j \in 1..Len(keys) |-> Member(keys[j], GetMember(obj, keys[j])) ])

FieldOrder(name) == [ j \in 1..Len(Schema(name)) |-> Schema(name)[j].f ]

IsRest(f) == f \notin { "claim_id", "version" }

(***************************************************************************)
(* Upstream client adapter: YandexDeliveryClient (client.ts).              *)
(***************************************************************************)
BaseUrl == "https://b2b.taxi.yandex.net"
ApiPrefix == "/b2b/cargo/integration/v2"

\* encodeURIComponent on the claim ids of the model
EncodeURIComponent(str) ==
  CASE str = "a/b" -> "a%2Fb"
    [] OTHER -> str

Post(path, body) ==
  [body |-> body, method |-> "POST", endpoint |-> ApiPrefix \o path]

GetWithClaimId(path, claimId) ==
  [body |-> JUndefined,
   method |-> "GET",
   endpoint |-> ApiPrefix \o path \o "?claim_id="
                \o EncodeURIComponent(IF claimId.t = "str" THEN claimId.s
                                      ELSE "undefined")]

\* The handler of each tool and the adapter method it calls: the arguments
\* of this.request(method, endpoint, body).  p is the validated params object.
AdapterCall(name, p) ==
  CASE name = "calculate_offers" ->
         Post("/offers/calculate",
              Pick(p, <<"route_points", "requirements", "optional_return", "due">>))
    [] name = "create_claim" -> Post("/claims/create", p)
    [] name = "get_claim_info" -> Post("/claims/info", Pick(p, <<"claim_id">>))
    [] name = "accept_claim" ->
         Post("/claims/accept", Pick(p, <<"claim_id", "version">>))
    [] name = "cancel_claim" ->
         Post("/claims/cancel", Pick(p, <<"claim_id", "version", "cancel_state">>))
    [] name = "check_price" -> Post("/check-price", p)
    [] name = "get_tariffs" -> Post("/tariffs", p)
    [] name = "get_driver_phone" ->
         Post("/driver-voiceforwarding", Pick(p, <<"claim_id">>))
    [] name = "get_performer_position" ->
         GetWithClaimId("/claims/performer-position", GetMember(p, "claim_id"))
    [] name = "get_points_eta" ->
         Post("/claims/points-eta", Pick(p, <<"claim_id">>))
    [] name = "get_tracking_links" ->
         GetWithClaimId("/claims/tracking-links", GetMember(p, "claim_id"))
    [] name = "get_confirmation_code" ->
         Post("/claims/confirmation_code", Pick(p, <<"claim_id">>))
    [] name = "get_proof_of_delivery" ->
         Post("/claims/proof-of-delivery/info", Pick(p, <<"claim_id">>))
    [] name = "edit_claim" ->
         Post("/claims/edit",
              Pick(p, <<"claim_id", "version">>
                      \o SelectSeq(FieldOrder("edit_claim"), IsRest)))
    [] name = "apply_changes_request" ->
         Post("/claims/apply-changes/request", Pick(p, <<"claim_id", "changes">>))
    [] name = "apply_changes_result" ->
         Post("/claims/apply-changes/result", Pick(p, <<"claim_id">>))
    [] name = "return_claim" ->
         Post("/claims/return", Pick(p, <<"claim_id", "version", "point_id">>))
    [] name = "search_claims" -> Post("/claims/search", p)
    [] name = "get_bulk_info" ->
         Post("/claims/bulk_info",
              JObj(<<Member("claims", GetMember(p, "claim_ids"))>>))
    [] name = "get_claim_journal" ->
         Post("/claims/journal", Pick(p, <<"claim_id", "cursor">>))
    [] name = "get_delivery_methods" -> Post("/delivery-methods", p)

\* JavaScript truthiness
Truthy(v) ==
  CASE v.t \in { "null", "undefined" } -> FALSE
    [] v.t = "bool" -> v.b
    [] v.t = "num" -> v.n # 0
    [] v.t = "str" -> v.s # ""
    [] OTHER -> TRUE

\* `${v}` for the values the model puts in a message
TemplateString(v) ==
  CASE v.t = "str" -> v.s
    [] v.t = "num" -> ToString(v.n)
    [] v.t = "bool" -> IF v.b THEN "true" ELSE "false"
    [] v.t = "obj" -> "[object Object]"
    [] v.t = "null" -> "null"
    [] OTHER -> ""

NoBodyText == << >>

\* request(): the options handed to fetch
FetchOptions(apiKey, call) ==
  [body |-> IF Truthy(call.body) /\ call.method # "GET"
            THEN StringifyCompact(call.body)
            ELSE NoBodyText,
   method |-> call.method,
   url |-> BaseUrl \o call.endpoint,
   contentType |-> "application/json",
   authorization |-> "Bearer " \o apiKey,
   accept |-> "application/json"]

NoRequest ==
  [body |-> NoBodyText, method |-> "", url |-> "", contentType |-> "",
   authorization |-> "", accept |-> ""]

(***************************************************************************)
(* The upstream API: what fetch resolves to.  kind "neterr" is a rejected  *)
(* fetch (DNS failure, connection reset, socket timeout).                  *)
(***************************************************************************)
UpstreamValues ==
  { JObj(<<Member("status", JStr("delivered"))>>),
    JObj(<<Member("code", JStr("not_found")),
           Member("message", JStr("claim not found"))>>),
    JObj(<<Member("message", JStr(""))>>),
    JObj(<<>>),
    JNull,
    JObj(<<Member("id", JStr("abc123")),
           Member("version", JNum(1)),
           Member("available", JBool(TRUE)),
           Member("position", JArr(<<JNum(0), JNum(1)>>)),
           Member("items", JArr(<<>>))>>) }

UpstreamBodies ==
  { StringifyCompact(v) : v \in UpstreamValues }
  \cup { Stringify(JObj(<<Member("status", JStr("delivered"))>>), 4),
         <<Punct("{"), StrTok("lat"), Punct(":"), NegZeroTok, Punct("}")>>,
         <<JunkTok("<html>")>>,
         << >> }

Statuses == { 200, 404 }

StatusText(status) ==
  CASE status = 200 -> "OK"
    [] status = 404 -> "Not Found"

ResponseOk(status) == status >= 200 /\ status <= 299

NetworkError == [body |-> << >>, status |-> 0, kind |-> "neterr"]
NoResponse == [body |-> << >>, status |-> 0, kind |-> "none"]

UpstreamResponses ==
  { [body |-> b, status |-> st, kind |-> "response"] :
      st \in Statuses, b \in UpstreamBodies }
  \cup { NetworkError }

\* request() after fetch settles: what the adapter method returns or throws
Returned(data) == [ok |-> TRUE, data |-> data, message |-> ""]
Thrown(message) == [ok |-> FALSE, data |-> JUndefined, message |-> message]

\* the bodies the upstream API answers with in any specification
AnswerBodies ==
  UpstreamBodies
  \cup { StringifyCompact(JObj(<<Member("message", JStr("claim not found"))>>)) }

\* response.json() of every body, parsed once
ResponseJson == [ b \in AnswerBodies |-> JsonParse(b) ]

RequestOutcome(resp) ==
  IF resp.kind = "neterr" THEN Thrown("fetch failed")
  ELSE LET parsed == ResponseJson[resp.body] IN
       IF ~parsed.ok THEN Thrown("Unexpected token in JSON")
       ELSE LET data == parsed.val IN
            IF ~ResponseOk(resp.status)
            THEN IF data.t = "null"
                 THEN Thrown("Cannot read properties of null (reading 'message')")
                 ELSE Thrown("API Error: "
                             \o (IF Truthy(GetMember(data, "message"))
                                 THEN TemplateString(GetMember(data, "message"))
                                 ELSE StatusText(resp.status)))
            ELSE Returned(data)

\* a request() that names its credential in the error it throws
RequestSettledLeaksKey(key, resp) ==
  IF RequestOutcome(resp).ok THEN RequestOutcome(resp)
  ELSE Thrown(RequestOutcome(resp).message \o " (Bearer " \o key \o ")")

\* request() of a client constructed with the credential key, after its
\* fetch has settled with resp: this.apiKey is in scope, and is not read
RequestSettled(key, resp) == RequestOutcome(resp)

(***************************************************************************)
(* Tool handlers (index.ts): every handler awaits one adapter method and   *)
(* returns its value as one text content item.                             *)
(***************************************************************************)
\* a handler that forwards only the status field of an object
HandlerReturnStatusOnly(name, data) ==
  << [text |-> Stringify(IF data.t = "obj" THEN Pick(data, <<"status">>) ELSE data,
                         2),
      type |-> "text"] >>

HandlerReturn(name, data) ==
  << [text |-> Stringify(data, 2), type |-> "text"] >>

NoContent == << >>

(***************************************************************************)
(* Request dispatcher.  The tools are registered on the McpServer of the   *)
(* MCP SDK, which looks the tool up, validates the arguments against the   *)
(* registered shape and wraps what the handler returns or throws.          *)
(***************************************************************************)
Success(content) ==
  [kind |-> "success", message |-> "", content |-> content, fields |-> {}]
Failure(kind, fields, message) ==
  [kind |-> kind, message |-> message, content |-> NoContent, fields |-> fields]
NoResult == Failure("none", {}, "")

NotFound == ""

\* a lookup that ignores the case of the name
LookupIgnoringCase(name) ==
  IF name \in RegisteredNames THEN name
  ELSE IF name = "Get_Claim_Info" THEN "get_claim_info" ELSE NotFound

\* step 1: exact-match lookup by name; the registered tool, or NotFound
Lookup(name) == IF name \in RegisteredNames THEN name ELSE NotFound

\* step 2: the required fields the arguments do not supply
MissingFields(name, args) ==
  { f \in RequiredFields(name) : ~HasMember(args, f) }

\* the parsed params handed to the handler: the shape's keys only
ValidatedParams(name, args) == Pick(args, FieldOrder(name))

\* steps 4 and 5: the result of a handler that returned or threw
Resolve(name, outcome) ==
  IF outcome.ok THEN Success(HandlerReturn(name, outcome.data))
  ELSE Failure("UpstreamError", {}, outcome.message)

(***************************************************************************)
(* State.                                                                  *)
(***************************************************************************)
VARIABLES
  entry,      \* the module the process was started with: "index" or "server"
  apiKey,     \* process.env.YANDEX_DELIVERY_API_KEY || ""
  testMode,   \* process.argv includes 'test-server.js'
  phase,      \* how far the process has come
  exitCode,   \* the code of process.exit, -1 while running
  routes,     \* the routes registered on the express app
  inv,        \* the tool invocations, one record per slot
  dispatched, \* tool invocations received so far
  fetches,    \* outbound upstream requests issued so far
  http,       \* the last HTTP exchange: request and response
  served      \* HTTP requests answered so far

vars == << entry, apiKey, testMode, phase, exitCode, routes, inv, dispatched,
           fetches, http, served >>

procVars == << entry, apiKey, testMode, phase, exitCode, routes >>

Idle ==
  [name |-> "", resp |-> NoResponse, args |-> JUndefined, pc |-> "idle",
   outbound |-> NoRequest, result |-> NoResult, results |-> 0]

NoExchange ==
  [path |-> "", body |-> NoBodyText, method |-> "", status |-> 0,
   token |-> "", upstream |-> NoResponse, json |-> JUndefined, session |-> ""]

Init ==
  /\ entry \in { "index", "server" }
  /\ apiKey \in { "", "secret-key" }
  /\ testMode \in BOOLEAN
  /\ phase = "boot"
  /\ exitCode = -1
  /\ routes = {}
  /\ inv = [ i \in Slots |-> Idle ]
  /\ dispatched = 0
  /\ fetches = 0
  /\ http = NoExchange
  /\ served = 0

(***************************************************************************)
(* Startup.                                                                *)
(***************************************************************************)
\* a credential check that runs only when index.ts is the entry point
LoadIndexStdioOnly ==
  /\ phase = "boot"
  /\ IF ~testMode /\ apiKey = "" /\ entry = "index"
     THEN phase' = "exited" /\ exitCode' = 1
     ELSE phase' = "registry" /\ UNCHANGED exitCode
  /\ UNCHANGED << entry, apiKey, testMode, routes, inv, dispatched, fetches,
                  http, served >>

\* index.ts module evaluation: the credential check, then the client, the
\* server and the tool registrations
LoadIndex ==
  /\ phase = "boot"
  /\ IF ~testMode /\ apiKey = ""
     THEN phase' = "exited" /\ exitCode' = 1
     ELSE phase' = "registry" /\ UNCHANGED exitCode
  /\ UNCHANGED << entry, apiKey, testMode, routes, inv, dispatched, fetches,
                  http, served >>

\* a main() that runs whenever index.ts is loaded
MainAnyEntry ==
  /\ phase = "registry"
  /\ phase' = "stdio"
  /\ UNCHANGED << entry, apiKey, testMode, exitCode, routes, inv, dispatched,
                  fetches, http, served >>

\* index.ts run directly: main() connects the stdio transport
Main ==
  /\ phase = "registry"
  /\ entry = "index"
  /\ phase' = "stdio"
  /\ UNCHANGED << entry, apiKey, testMode, exitCode, routes, inv, dispatched,
                  fetches, http, served >>

\* server.ts module body: /health, cors, json, / and /manifest are
\* registered, the signal handlers installed and startServer() called, which
\* runs up to its await createServer()
ModuleBody ==
  /\ phase = "registry"
  /\ entry = "server"
  /\ routes' = routes \cup { "/health", "/", "/manifest" }
  /\ phase' = "starting"
  /\ UNCHANGED << entry, apiKey, testMode, exitCode, inv, dispatched, fetches,
                  http, served >>

\* a startServer() that calls app.listen before it registers /mcp and /tools
StartServerListensFirst ==
  /\ phase = "starting"
  /\ phase' = "binding"
  /\ UNCHANGED << entry, apiKey, testMode, exitCode, routes, inv, dispatched,
                  fetches, http, served >>

\* startServer() after the await: /mcp and /tools are registered and
\* app.listen is called
StartServer ==
  /\ phase = "starting"
  /\ routes' = routes \cup { "/mcp", "/tools" }
  /\ phase' = "binding"
  /\ UNCHANGED << entry, apiKey, testMode, exitCode, inv, dispatched, fetches,
                  http, served >>

\* the catch of startServer(): app.listen throws before it binds (a PORT
\* outside 0..65535), after the routes were registered
StartServerThrows ==
  /\ phase = "starting"
  /\ routes' = routes \cup { "/mcp", "/tools" }
  /\ phase' = "exited"
  /\ exitCode' = 1
  /\ UNCHANGED << entry, apiKey, testMode, inv, dispatched, fetches,
                  http, served >>

\* the listen callback
Listening ==
  /\ phase = "binding"
  /\ phase' = "listening"
  /\ UNCHANGED << entry, apiKey, testMode, exitCode, routes, inv, dispatched,
                  fetches, http, served >>

\* server.on('error'): the port cannot be bound
ListenError ==
  /\ phase = "binding"
  /\ phase' = "exited"
  /\ exitCode' = 1
  /\ UNCHANGED << entry, apiKey, testMode, routes, inv, dispatched, fetches,
                  http, served >>

\* process.on('SIGINT' / 'SIGTERM')
Signal ==
  /\ phase \in { "starting", "binding", "listening" }
  /\ phase' = "exited"
  /\ exitCode' = 0
  /\ UNCHANGED << entry, apiKey, testMode, routes, inv, dispatched, fetches,
                  http, served >>

(***************************************************************************)
(* Tool invocations over the stdio transport.                              *)
(***************************************************************************)
ArgValue(f, variant) ==
  CASE f = "claim_id" -> JStr(IF variant = 1 THEN "abc123" ELSE "a/b")
    [] f = "version" -> JNum(variant)
    [] f \in { "offset", "limit", "point_id" } -> JNum(1)
    [] f = "optional_return" -> JBool(TRUE)
    [] f \in { "route_points", "items", "changes" } ->
         JArr(<<JObj(<<Member("fullname", JStr("Moscow"))>>)>>)
    [] f \in { "requirements", "emergency_contact" } ->
         JObj(<<Member("taxi_class", JStr("express"))>>)
    [] f \in { "statuses", "claim_ids" } -> JArr(<<JStr("abc123")>>)
    [] f \in { "start_point", "end_point" } -> JArr(<<JNum(0), JNum(1)>>)
    [] OTHER -> JStr("x")

\* the arguments object holding the fields of the set, in schema order
ArgsObject(order, fields, variant) ==
  LET Supplied(f) == f \in fields
      keys == SelectSeq(order, Supplied)
  IN  JObj([ j \in 1..Len(keys) |-> Member(keys[j], ArgValue(keys[j], variant)) ])

Variants == { 1, 2 }

\* the argument objects a caller sends for a tool: every required field,
\* one required field left out, one optional field added, all fields, and
\* the optional fields alone
ArgFieldSets(name) ==
  LET R == RequiredFields(name)
      O == OptionalFields(name)
  IN  { R, R \cup O, O }
      \cup { R \ { f } : f \in R }
      \cup { R \cup { f } : f \in O }

\* the fields of the params type of the adapter method that the shape
\* registered for the tool does not declare
UndeclaredFields(name) ==
  IF name = "edit_claim" THEN << "requirements" >> ELSE << >>

CallArgs(name) ==
  IF name \in RegisteredNames
  THEN { ArgsObject(FieldOrder(name) \o UndeclaredFields(name), fs, v) :
           fs \in ArgFieldSets(name)
                   \cup { RequiredFields(name) \cup { f } :
                             f \in Range(UndeclaredFields(name)) },
           v \in Variants }
  ELSE { JObj(<<>>), JObj(<<Member("claim_id", JStr("abc123"))>>) }

\* a client that builds the options of request() in a field of the shared
\* instance: a dispatch replaces the options of the fetches still pending
DispatchSharedOptions(i, name, args) ==
  /\ phase = "stdio"
  /\ inv[i].pc \in { "idle", "done" }
  /\ dispatched < MaxInvocations
  /\ dispatched' = dispatched + 1
  /\ LET tool == Lookup(name) IN
     IF tool = NotFound
     THEN /\ inv' = [inv EXCEPT ![i] =
                       [Idle EXCEPT !.pc = "done", !.name = name, !.args = args,
                                    !.result = Failure("UnknownTool", {},
                                                       "Tool " \o name \o " not found"),
                                    !.results = 1]]
          /\ UNCHANGED fetches
     ELSE IF MissingFields(tool, args) # {}
     THEN /\ inv' = [inv EXCEPT ![i] =
                       [Idle EXCEPT !.pc = "done", !.name = name, !.args = args,
                                    !.result = Failure("InvalidArguments",
                                                       MissingFields(tool, args),
                                                       "Invalid arguments for tool " \o name),
                                    !.results = 1]]
          /\ UNCHANGED fetches
     ELSE /\ LET options == FetchOptions(apiKey,
                               AdapterCall(tool, ValidatedParams(tool, args)))
             IN inv' = [ j \in Slots |->
                          IF j = i
                          THEN [Idle EXCEPT !.pc = "awaitFetch", !.name = name,
                                            !.args = args, !.outbound = options]
                          ELSE IF inv[j].pc = "awaitFetch"
                          THEN [inv[j] EXCEPT !.outbound = options]
                          ELSE inv[j] ]
          /\ fetches' = fetches + 1
  /\ UNCHANGED << procVars, http, served >>

\* a tools/call reaches the dispatcher: lookup, validation and the handler
\* up to the fetch of request().  The record keeps the arguments and the
\* outbound request until the fetch settles; nothing reads them after that.
Dispatch(i, name, args) ==
  /\ phase = "stdio"
  /\ inv[i].pc \in { "idle", "done" }
  /\ dispatched < MaxInvocations
  /\ dispatched' = dispatched + 1
  /\ LET tool == Lookup(name) IN
     IF tool = NotFound
     THEN /\ inv' = [inv EXCEPT ![i] =
                       [Idle EXCEPT !.pc = "done", !.name = name, !.args = args,
                                    !.result = Failure("UnknownTool", {},
                                                       "Tool " \o name \o " not found"),
                                    !.results = 1]]
          /\ UNCHANGED fetches
     ELSE IF MissingFields(tool, args) # {}
     THEN /\ inv' = [inv EXCEPT ![i] =
                       [Idle EXCEPT !.pc = "done", !.name = name, !.args = args,
                                    !.result = Failure("InvalidArguments",
                                                       MissingFields(tool, args),
                                                       "Invalid arguments for tool " \o name),
                                    !.results = 1]]
          /\ UNCHANGED fetches
     ELSE /\ inv' = [inv EXCEPT ![i] =
                       [Idle EXCEPT !.pc = "awaitFetch", !.name = name,
                                    !.args = args,
                                    !.outbound =
                                      FetchOptions(apiKey,
                                        AdapterCall(tool,
                                          ValidatedParams(tool, args)))]]
          /\ fetches' = fetches + 1
  /\ UNCHANGED << procVars, http, served >>

\* a request() that issues the request a second time when fetch rejects
FetchSettlesRetries(i, resp) ==
  /\ inv[i].pc = "awaitFetch"
  /\ IF resp.kind = "neterr"
     THEN /\ inv' = [inv EXCEPT ![i].resp = resp]
          /\ fetches' = fetches + 1
     ELSE /\ inv' = [inv EXCEPT ![i] =
                       [Idle EXCEPT !.pc = "awaitBody", !.name = inv[i].name,
                                    !.resp = resp]]
          /\ UNCHANGED fetches
  /\ UNCHANGED << procVars, dispatched, http, served >>

\* await fetch(url, options) settles: a response arrives, or fetch rejects
\* and the error propagates out of request() and the handler
FetchSettles(i, resp) ==
  /\ inv[i].pc = "awaitFetch"
  /\ IF resp.kind = "neterr"
     THEN inv' = [inv EXCEPT ![i] =
                    [Idle EXCEPT !.pc = "done", !.name = inv[i].name,
                                 !.resp = resp,
                                 !.result = Resolve(inv[i].name,
                                                    RequestSettled(apiKey, resp)),
                                 !.results = inv[i].results + 1]]
     ELSE inv' = [inv EXCEPT ![i] =
                    [Idle EXCEPT !.pc = "awaitBody", !.name = inv[i].name,
                                 !.resp = resp]]
  /\ UNCHANGED << procVars, dispatched, fetches, http, served >>

\* the upstream API never answers and the connection never fails: fetch
\* stays pending, and request() sets no timeout and no abort signal
FetchHangs(i) ==
  /\ inv[i].pc = "awaitFetch"
  /\ inv' = [inv EXCEPT ![i].pc = "hung"]
  /\ UNCHANGED << procVars, dispatched, fetches, http, served >>

\* a continuation that ends the invocation without handing on a result
BodySettlesDropsResult(i) ==
  /\ inv[i].pc = "awaitBody"
  /\ inv' = [inv EXCEPT ![i].pc = "done"]
  /\ UNCHANGED << procVars, dispatched, fetches, http, served >>

\* await response.json() settles: the rest of request() and of the handler
BodySettles(i) ==
  /\ inv[i].pc = "awaitBody"
  /\ inv' = [inv EXCEPT ![i].pc = "done",
                        ![i].result = Resolve(inv[i].name,
                                              RequestSettled(apiKey, inv[i].resp)),
                        ![i].results = @ + 1]
  /\ UNCHANGED << procVars, dispatched, fetches, http, served >>

(***************************************************************************)
(* HTTP server (server.ts): the express routes and what they answer.       *)
(***************************************************************************)
Strs(names) == JArr([ j \in 1..Len(names) |-> JStr(names[j]) ])

HealthBody ==
  JObj(<< Member("status", JStr("ok")),
          Member("timestamp", JStr("2024-01-01T00:00:00.000Z")),
          Member("version", JStr("1.0.0")),
          Member("uptime", JNum(1)),
          Member("environment", JStr("development")),
          Member("port", JNum(3002)) >>)

RootBody ==
  JObj(<< Member("message", JStr("Yandex Delivery MCP Server")),
          Member("status", JStr("running")),
          Member("endpoints",
                 JObj(<< Member("health", JStr("/health")),
                         Member("manifest", JStr("/manifest")),
                         Member("tools", JStr("/tools")),
                         Member("mcp", JStr("/mcp")) >>)) >>)

\* capabilities.tools of the manifest
ManifestTools ==
  << "calculate_offers", "create_claim", "get_claim_info", "accept_claim",
     "cancel_claim", "check_price", "get_tariffs", "get_driver_phone",
     "get_performer_position", "get_points_eta", "get_tracking_links",
     "get_confirmation_code", "get_proof_of_delivery", "edit_claim",
     "apply_changes_request", "apply_changes_result", "return_claim",
     "search_claims", "get_bulk_info", "get_claim_journal",
     "get_delivery_methods" >>

ManifestBody ==
  JObj(<< Member("name", JStr("yandex-delivery-mcp")),
          Member("version", JStr("1.0.0")),
          Member("transport", JStr("http")),
          Member("endpoints",
                 JObj(<< Member("mcp", JStr("/mcp")),
                         Member("health", JStr("/health")),
                         Member("manifest", JStr("/manifest")) >>)),
          Member("capabilities",
                 JObj(<< Member("tools", Strs(ManifestTools)) >>)),
          Member("setup",
                 JObj(<< Member("required_env",
                                Strs(<<"YANDEX_DELIVERY_API_KEY">>)),
                         Member("optional_env", Strs(<<"MCP_PORT">>)) >>)) >>)

\* the tool descriptors listed by GET /tools: name and inputSchema.required
Listed(name, required) == [name |-> name, required |-> required]

ToolList ==
  << Listed("calculate_offers", <<"route_points">>),
     Listed("create_claim", <<"route_points">>),
     Listed("get_claim_info", <<"claim_id">>),
     Listed("accept_claim", <<"claim_id", "version">>),
     Listed("cancel_claim", <<"claim_id", "version">>),
     Listed("check_price", <<"route_points">>),
     Listed("get_tariffs", << >>),
     Listed("get_driver_phone", <<"claim_id">>),
     Listed("get_performer_position", <<"claim_id">>),
     Listed("get_points_eta", <<"claim_id">>),
     Listed("get_tracking_links", <<"claim_id">>),
     Listed("get_confirmation_code", <<"claim_id">>),
     Listed("get_proof_of_delivery", <<"claim_id">>),
     Listed("edit_claim", <<"claim_id", "version">>),
     Listed("search_claims", << >>),
     Listed("get_claim_journal", <<"claim_id">>) >>

ToolsBody ==
  JObj(<< Member("tools",
                 JArr([ j \in 1..Len(ToolList) |->
                          JObj(<< Member("name", JStr(ToolList[j].name)),
                                  Member("inputSchema",
                                         JObj(<< Member("type", JStr("object")),
                                                 Member("required",
                                                        Strs(ToolList[j].required))
                                              >>)) >>) ])) >>)

\* what the /mcp middleware answers, whatever the request
McpBody ==
  JObj(<< Member("status", JStr("MCP Server running")),
          Member("endpoints",
                 JObj(<< Member("tools", JStr("/tools")),
                         Member("manifest", JStr("/manifest")) >>)) >>)

\* server.ts keeps no session map: the /mcp middleware reads no session
\* token and creates no transport or session object
SessionMap == << >>

NoSession == ""

Answer(status, json) == [status |-> status, json |-> json, session |-> NoSession]

\* app.use('/mcp', ...) matches the path and everything below it
UnderMcp(path) == path \in { "/mcp", "/mcp/messages" }

\* express.json(): a body that is present and is not a JSON object or array
BadJson(body) ==
  /\ body # NoBodyText
  /\ \/ ~JsonParse(body).ok
     \/ JsonParse(body).val.t \notin { "obj", "arr" }

\* The middleware chain in registration order: /health, cors, express.json,
\* /, /manifest, /mcp, /tools, then the default 404.
Respond(registered, method, path, body) ==
  IF method = "GET" /\ path = "/health" /\ "/health" \in registered
  THEN Answer(200, HealthBody)
  ELSE IF BadJson(body) THEN Answer(400, JUndefined)
  ELSE IF method = "GET" /\ path = "/" /\ "/" \in registered
  THEN Answer(200, RootBody)
  ELSE IF method = "GET" /\ path = "/manifest" /\ "/manifest" \in registered
  THEN Answer(200, ManifestBody)
  ELSE IF UnderMcp(path) /\ "/mcp" \in registered
  THEN Answer(200, McpBody)
  ELSE IF method = "GET" /\ path = "/tools" /\ "/tools" \in registered
  THEN Answer(200, ToolsBody)
  ELSE Answer(404, JUndefined)

(***************************************************************************)
(* HTTP requests.                                                          *)
(***************************************************************************)
HttpMethods == { "GET", "POST" }
HttpPaths ==
  { "/health", "/", "/manifest", "/mcp", "/mcp/messages", "/tools", "/unknown" }
\* the session token of the request; "" when the request carries none
Tokens == { "", "s1" }

RpcIds == { JNum(7), JStr("req-1") }
RpcMethods == { "tools/list", "tools/call", "resources/list" }
RpcToolNames == { "cancel_claim", "nonexistent_tool" }

Envelope(method, id, name) ==
  JObj(<< Member("jsonrpc", JStr("2.0")),
          Member("method", JStr(method)),
          Member("params",
                 IF method = "tools/call"
                 THEN JObj(<< Member("name", JStr(name)),
                              Member("arguments",
                                     JObj(<< Member("claim_id", JStr("abc123")),
                                             Member("version", JNum(1)) >>)) >>)
                 ELSE JUndefined),
          Member("id", id) >>)

Envelopes ==
  { Envelope(m, id, "") : m \in RpcMethods \ { "tools/call" }, id \in RpcIds }
  \cup { Envelope("tools/call", id, n) : id \in RpcIds, n \in RpcToolNames }

HttpBodies ==
  { NoBodyText, <<JunkTok("{not json")>> }
  \cup { StringifyCompact(e) : e \in Envelopes }

\* a GET carries no body
BodiesOf(method) == IF method = "GET" THEN { NoBodyText } ELSE HttpBodies

\* what the upstream API would answer if it were asked during the request
HttpUpstream ==
  { [body |-> StringifyCompact(JObj(<<Member("status", JStr("delivered"))>>)),
     status |-> 200, kind |-> "response"],
    [body |-> StringifyCompact(JObj(<<Member("message", JStr("claim not found"))>>)),
     status |-> 404, kind |-> "response"] }

\* a server whose routes other than /health answer 401 without the credential
HttpRequestNeedsCredential(method, path, token, body, upstream) ==
  /\ phase = "listening"
  /\ served < MaxHttpRequests
  /\ served' = served + 1
  /\ http' = [path |-> path, body |-> body, method |-> method, token |-> token,
              upstream |-> upstream]
             @@ (IF apiKey = "" /\ path # "/health"
                 THEN Answer(401, JUndefined)
                 ELSE Respond(routes, method, path, body))
  /\ UNCHANGED << procVars, inv, dispatched, fetches >>

\* a server that an unparseable request body brings down
HttpRequestCrashesOnBadJson(method, path, token, body, upstream) ==
  /\ phase = "listening"
  /\ served < MaxHttpRequests
  /\ served' = served + 1
  /\ http' = [path |-> path, body |-> body, method |-> method, token |-> token,
              upstream |-> upstream]
             @@ Respond(routes, method, path, body)
  /\ IF BadJson(body) /\ path # "/health"
     THEN phase' = "exited" /\ exitCode' = 1
     ELSE UNCHANGED << phase, exitCode >>
  /\ UNCHANGED << entry, apiKey, testMode, routes, inv, dispatched, fetches >>

\* one HTTP request is received and answered
HttpRequest(method, path, token, body, upstream) ==
  /\ phase = "listening"
  /\ served < MaxHttpRequests
  /\ served' = served + 1
  /\ http' = [path |-> path, body |-> body, method |-> method, token |-> token,
              upstream |-> upstream]
             @@ Respond(routes, method, path, body)
  /\ UNCHANGED << procVars, inv, dispatched, fetches >>

\* no answer: the connection is refused
Refused == Answer(0, JUndefined)

\* an HTTP request is sent to the port of a process that has exited:
\* nothing listens, whatever the method, path and body
HttpRefused(method, path) ==
  /\ entry = "server"
  /\ phase = "exited"
  /\ http' = [path |-> path, body |-> NoBodyText, method |-> method,
              token |-> "", upstream |-> NoResponse]
             @@ Refused
  /\ UNCHANGED << procVars, inv, dispatched, fetches, served >>

(***************************************************************************)
(* Specifications.                                                         *)
(***************************************************************************)
Startup ==
  \/ LoadIndex
  \/ Main
  \/ ModuleBody
  \/ StartServer
  \/ StartServerThrows
  \/ Listening
  \/ ListenError
  \/ Signal

Http ==
  \E method \in HttpMethods, path \in HttpPaths, token \in Tokens,
     upstream \in HttpUpstream :
    \E body \in BodiesOf(method) :
      HttpRequest(method, path, token, body, upstream)

HttpDown == \E method \in HttpMethods, path \in HttpPaths : HttpRefused(method, path)

\* one invocation at a time, over every tool and argument object
Next ==
  \/ Startup
  \/ Http
  \/ HttpDown
  \/ \E name \in ToolNames : \E args \in CallArgs(name) :
       Dispatch(1, name, args)
  \/ \E resp \in UpstreamResponses : FetchSettles(1, resp)
  \/ FetchHangs(1)
  \/ BodySettles(1)

Spec == Init /\ [][Next]_vars

\* Concurrent invocations: every slot may hold an invocation in flight, over
\* a registered tool with and without its required field, an unknown tool,
\* and a 2xx, a non-2xx, an unparseable and a failed upstream answer.
ConcNames == { "get_claim_info", "accept_claim", "nonexistent_tool" }

ConcArgs(name) ==
  IF name \in RegisteredNames
  THEN { ArgsObject(FieldOrder(name), RequiredFields(name), 1),
         ArgsObject(FieldOrder(name), { "claim_id" }, 2) }
  ELSE { JObj(<<>>) }

ConcResponses ==
  { [body |-> StringifyCompact(JObj(<<Member("status", JStr("delivered"))>>)),
     status |-> 200, kind |-> "response"],
    [body |-> StringifyCompact(JObj(<<Member("message", JStr("claim not found"))>>)),
     status |-> 404, kind |-> "response"],
    [body |-> <<JunkTok("<html>")>>, status |-> 200, kind |-> "response"],
    NetworkError }

ConcInit == Init /\ entry = "index" /\ apiKey = "secret-key" /\ testMode = FALSE

ConcNext ==
  \/ LoadIndex
  \/ Main
  \/ \E i \in Slots, name \in ConcNames : \E args \in ConcArgs(name) :
       Dispatch(i, name, args)
  \/ \E i \in Slots, resp \in ConcResponses : FetchSettles(i, resp)
  \/ \E i \in Slots : FetchHangs(i)
  \/ \E i \in Slots : BodySettles(i)

ConcSpec == ConcInit /\ [][ConcNext]_vars

\* Every step of the program itself is eventually taken, and a pending fetch
\* eventually settles unless the upstream hangs.  Nothing makes a hung fetch
\* settle: request() sets no timeout.
ConcFairness ==
  /\ WF_vars(LoadIndex)
  /\ WF_vars(Main)
  /\ \A i \in Slots :
       /\ WF_vars(\E resp \in ConcResponses : FetchSettles(i, resp))
       /\ WF_vars(BodySettles(i))

FairConcSpec == ConcSpec /\ ConcFairness

\* The evaluation of the modules at process start is synchronous code that
\* nothing can hold up.
FairSpec == Spec /\ WF_vars(LoadIndex)

(***************************************************************************)
(* Properties.                                                             *)
(***************************************************************************)
InFlight(i) == inv[i].pc \in { "awaitFetch", "awaitBody", "hung" }

ResultKinds == { "success", "UnknownTool", "InvalidArguments", "UpstreamError" }

\* C1 (as stated): every invocation that reaches the dispatcher resolves to
\* exactly one result, never zero and never more than one, for every outcome
\* of the upstream call, an upstream call that never returns included.
C1_AlwaysExactlyOneResult ==
  /\ [](\A i \in Slots : inv[i].results <= 1)
  /\ \A i \in Slots :
       (inv[i].pc # "idle") ~> (inv[i].pc = "done" /\ inv[i].results = 1)

\* C1 (amended): an invocation never has more than one result; it has exactly
\* one once it is done, for an unknown tool, invalid arguments, a 2xx or
\* non-2xx response and a rejected fetch alike; and a pending invocation
\* either gets its result or the upstream call has hung, in which case it
\* has no result.
C1_ExactlyOneResultUnlessHung ==
  /\ [](\A i \in Slots :
          /\ inv[i].results <= 1
          /\ inv[i].pc = "done" =>
               inv[i].results = 1 /\ inv[i].result.kind \in ResultKinds
          /\ InFlight(i) => inv[i].results = 0 /\ inv[i].result = NoResult)
  /\ \A i \in Slots :
       (inv[i].pc \in { "awaitFetch", "awaitBody" })
         ~> (inv[i].pc \in { "done", "hung" })

C1_Witness ==
  \E i \in Slots :
    /\ inv[i].pc = "done"
    /\ inv[i].results = 1
    /\ inv[i].result.kind = "UpstreamError"
    /\ inv[i].resp.kind = "response"
    /\ ~ResponseOk(inv[i].resp.status)

\* C2: a tools/call whose name is not a registered tool name resolves, for
\* any arguments, to the UnknownTool failure, and the step that receives it
\* issues no outbound upstream request.
C2_UnknownToolNoAdapterCall ==
  /\ [](\A i \in Slots :
          (inv[i].pc # "idle" /\ inv[i].name \notin RegisteredNames) =>
            /\ inv[i].pc = "done"
            /\ inv[i].result.kind = "UnknownTool"
            /\ inv[i].outbound = NoRequest)
  /\ [][\A i \in Slots :
          (inv'[i] # inv[i] /\ inv'[i].name \notin RegisteredNames) =>
            fetches' = fetches]_vars

C2_Witness ==
  \E i \in Slots :
    /\ inv[i].name = "nonexistent_tool"
    /\ inv[i].args # JObj(<<>>)
    /\ inv[i].result.kind = "UnknownTool"
    /\ fetches = 0

\* the invocation in slot i was called without the field f
Omits(i, f) == inv[i].args.t = "obj" /\ ~HasMember(inv[i].args, f)

McpAnswered == http.status = 200 /\ UnderMcp(http.path)

\* C4 (as stated): the session map holds a session object for the token of
\* every request served on /mcp, and that object served the request.
C4_OneSessionPerToken ==
  McpAnswered =>
    /\ http.token \in DOMAIN SessionMap
    /\ http.session = SessionMap[http.token]

\* the names a tool list names
NamesIn(list) == { GetMember(e, "name") : e \in Range(list.a) }

RegistryNames == { JStr(n) : n \in RegisteredNames }

\* C5 (as stated): the tool list answered by GET /tools names exactly the
\* registered tools.
C5_ToolListIsRegistry ==
  (http.method = "GET" /\ http.path = "/tools" /\ http.status = 200) =>
    NamesIn(GetMember(http.json, "tools")) = RegistryNames

\* C6: the capability list of the GET /manifest response is exactly the set
\* of registered tool names, each named once.
C6_ManifestIsRegistry ==
  (http.method = "GET" /\ http.path = "/manifest" /\ http.status = 200) =>
    LET tools == GetMember(GetMember(http.json, "capabilities"), "tools") IN
    /\ tools.t = "arr"
    /\ Range(tools.a) = RegistryNames
    /\ Len(tools.a) = Cardinality(RegistryNames)

C6_Witness ==
  /\ http.method = "GET" /\ http.path = "/manifest" /\ http.status = 200
  /\ JStr("return_claim")
       \in Range(GetMember(GetMember(http.json, "capabilities"), "tools").a)

\* C7: the payload of a successful invocation is one text item which, parsed
\* as JSON, equals the value the adapter returned, serialized and parsed
\* again.
C7_PayloadIsAdapterValue ==
  \A i \in Slots :
    (inv[i].pc = "done" /\ inv[i].result.kind = "success") =>
      LET returned == RequestOutcome(inv[i].resp)
          content == inv[i].result.content
      IN  /\ returned.ok
          /\ Len(content) = 1
          /\ content[1].type = "text"
          /\ JsonParse(content[1].text).ok
          /\ JsonParse(content[1].text)
               = JsonParse(StringifyCompact(returned.data))

C7_Witness ==
  \E i \in Slots :
    /\ inv[i].pc = "done"
    /\ inv[i].name = "get_claim_info"
    /\ inv[i].result.kind = "success"
    /\ RequestOutcome(inv[i].resp).data
         = JObj(<<Member("id", JStr("abc123")),
                  Member("version", JNum(1)),
                  Member("available", JBool(TRUE)),
                  Member("position", JArr(<<JNum(0), JNum(1)>>)),
                  Member("items", JArr(<<>>))>>)
    /\ JsonParse(inv[i].result.content[1].text).val
         = RequestOutcome(inv[i].resp).data

\* the JSON-RPC envelope of the last HTTP request, if its body is one
RpcRequest == JsonParse(http.body).val

IsRpc ==
  /\ McpAnswered
  /\ JsonParse(http.body).ok
  /\ HasMember(RpcRequest, "method")

MethodNotFound == JNum(-32601)
InternalError == JNum(-32603)

\* C8 (as stated): the response to a JSON-RPC request on /mcp carries the id
\* of the request.
C8_ResponseEchoesId ==
  IsRpc =>
    /\ HasMember(http.json, "id")
    /\ GetMember(http.json, "id") = GetMember(RpcRequest, "id")

\* C9 (as stated): a request on /mcp whose method is neither tools/list nor
\* tools/call is answered with an error envelope carrying the "method not
\* found" code.
C9_UnknownMethodRejected ==
  (IsRpc /\ GetMember(RpcRequest, "method")
              \notin { JStr("tools/list"), JStr("tools/call") }) =>
    GetMember(GetMember(http.json, "error"), "code") = MethodNotFound

\* C10 (as stated): when the adapter operation behind a tools/call on /mcp
\* fails, the response is an error envelope with the internal-error code and
\* the adapter's failure message.
C10_AdapterFailureReported ==
  ( /\ IsRpc
    /\ GetMember(RpcRequest, "method") = JStr("tools/call")
    /\ GetMember(GetMember(RpcRequest, "params"), "name") \in RegistryNames
    /\ ~RequestOutcome(http.upstream).ok ) =>
    /\ GetMember(GetMember(http.json, "error"), "code") = InternalError
    /\ GetMember(GetMember(http.json, "error"), "message")
         = JStr(RequestOutcome(http.upstream).message)

\* the step is a tools/call of a registered tool with valid arguments,
\* received in slot i
ValidDispatch(i) ==
  /\ dispatched' = dispatched + 1
  /\ inv'[i] # inv[i]
  /\ inv'[i].name \in RegisteredNames
  /\ MissingFields(inv'[i].name, inv'[i].args) = {}

\* C11: a dispatch of a registered tool with valid arguments issues exactly
\* one outbound upstream request, and no other step issues one: not the
\* settling of a fetch with a 2xx or non-2xx response or with a network
\* failure (no retry), and not a dispatch that is rejected.  So the requests
\* issued never outnumber the dispatches, and k valid dispatches issue k.
C11_OneRequestPerDispatch ==
  /\ [](fetches <= dispatched)
  /\ [][\A i \in Slots :
          ValidDispatch(i) =>
            fetches' = fetches + 1 /\ inv'[i].outbound # NoRequest]_vars
  /\ [][(\A i \in Slots : ~ValidDispatch(i)) => fetches' = fetches]_vars

\* two valid dispatches were received, the last has failed at network level,
\* and two requests were issued
C11_Witness ==
  /\ dispatched = 2
  /\ fetches = 2
  /\ \E i \in Slots :
       /\ inv[i].name = "cancel_claim"
       /\ inv[i].pc = "done"
       /\ inv[i].resp = NetworkError
       /\ inv[i].result.kind = "UpstreamError"

\* the message the upstream API reports in a response body, "" when the body
\* is not JSON or holds no message
UpstreamMessage(resp) ==
  LET parsed == ResponseJson[resp.body] IN
  IF parsed.ok /\ GetMember(parsed.val, "message").t = "str"
  THEN GetMember(parsed.val, "message").s
  ELSE ""

\* C12 (as stated): an invocation whose upstream response is non-2xx resolves
\* to one failure whose message carries the message of the response body
\* when the body has one, and the HTTP status text when it has none, a body
\* that is not parseable JSON included.
C12_NonOkMessageOrStatusText ==
  \A i \in Slots :
    ( /\ inv[i].pc = "done"
      /\ inv[i].resp.kind = "response"
      /\ ~ResponseOk(inv[i].resp.status) ) =>
      /\ inv[i].results = 1
      /\ inv[i].result.kind = "UpstreamError"
      /\ inv[i].result.message
           = "API Error: "
             \o (IF UpstreamMessage(inv[i].resp) # ""
                 THEN UpstreamMessage(inv[i].resp)
                 ELSE StatusText(inv[i].resp.status))

NoCredential == apiKey = "" /\ ~testMode

\* C13: with the credential absent and outside test mode the process exits
\* with code 1 at startup: its first step is the exit, it takes that step,
\* and it never registers a route, listens, connects a transport, serves an
\* HTTP request or receives a tool invocation, so that no request can report
\* the missing credential.  In test mode the startup check passes without
\* the credential.
C13_NoCredentialExitsAtStartup ==
  /\ [](NoCredential =>
          /\ phase \in { "boot", "exited" }
          /\ phase = "exited" => exitCode = 1
          /\ routes = {}
          /\ served = 0 /\ dispatched = 0 /\ fetches = 0)
  /\ [][(NoCredential /\ phase = "boot") =>
          (phase' = "exited" /\ exitCode' = 1)]_vars
  /\ NoCredential ~> (phase = "exited" /\ exitCode = 1)
  /\ [][(testMode /\ phase = "boot") => phase' = "registry"]_vars

C13_Witness ==
  /\ NoCredential
  /\ entry = "server"
  /\ phase = "exited"
  /\ exitCode = 1
  /\ served = 0

DiscoveryPaths == { "/health", "/", "/manifest", "/tools" }

\* the last HTTP exchange was a GET of a discovery endpoint
DiscoveryAsked == http.method = "GET" /\ http.path \in DiscoveryPaths

\* the body each discovery endpoint answers with
DiscoveryBody(path) ==
  CASE path = "/health" -> HealthBody
    [] path = "/" -> RootBody
    [] path = "/manifest" -> ManifestBody
    [] path = "/tools" -> ToolsBody

\* the process was stopped by a signal or could not bind its port
StoppedAfterStartup == phase = "exited" /\ routes # {}

HttpFailed == http.status \in { 400, 404 } \/ McpAnswered

Credentials == { "", "secret-key", "other-key" }

\* what the client of the finished invocation in slot i is sent by a process
\* configured with the credential key, for the same tool name, arguments
\* and upstream response
ClientResult(key, i) ==
  IF Lookup(inv[i].name) = NotFound
  THEN Failure("UnknownTool", {}, "Tool " \o inv[i].name \o " not found")
  ELSE IF inv[i].resp = NoResponse
  THEN Failure("InvalidArguments", MissingFields(inv[i].name, inv[i].args),
               "Invalid arguments for tool " \o inv[i].name)
  ELSE Resolve(inv[i].name, RequestSettled(key, inv[i].resp))

EditFields ==
  << "claim_id", "version", "items", "route_points", "requirements", "comment" >>

EditBody(i) == JsonParse(inv[i].outbound.body).val

\* C17: an edit_claim whose request is in flight has forwarded a body that
\* holds claim_id, version and every supplied update field (items,
\* route_points, requirements, comment) with the supplied value, and no
\* field that was not supplied; it is a POST to the edit endpoint.
C17_EditClaimForwardsSuppliedFields ==
  \A i \in Slots :
    (inv[i].pc = "awaitFetch" /\ inv[i].name = "edit_claim") =>
      /\ inv[i].outbound.method = "POST"
      /\ inv[i].outbound.url = BaseUrl \o ApiPrefix \o "/claims/edit"
      /\ JsonParse(inv[i].outbound.body).ok
      /\ \A f \in Range(EditFields) :
           GetMember(EditBody(i), f) = GetMember(inv[i].args, f)
      /\ \A m \in Range(EditBody(i).o) : HasMember(inv[i].args, m.k)

StdioConnected == phase = "stdio"
HttpStarted == phase \in { "binding", "listening" }

\* C18: the stdio transport is connected only in a process whose entry point
\* is index.ts and the HTTP listener is started only in a process whose
\* entry point is server.ts; a process that connected one never starts the
\* other, and no process both dispatches tool calls and serves HTTP requests.
C18_OneTransportPerProcess ==
  /\ [](StdioConnected => entry = "index")
  /\ [](HttpStarted => entry = "server")
  /\ [](~(StdioConnected /\ HttpStarted))
  /\ [][StdioConnected => ~HttpStarted']_vars
  /\ [][HttpStarted => ~StdioConnected']_vars
  /\ [](dispatched > 0 => entry = "index" /\ served = 0)
  /\ [](http.status \in { 200, 400, 404 } => entry = "server" /\ dispatched = 0)
  /\ [](routes # {} => entry = "server")

C18_Witness ==
  /\ entry = "server"
  /\ phase = "listening"
  /\ http.status = 200
  /\ http.path = "/mcp"
  /\ dispatched = 0
  /\ fetches = 0

\* C19: with invocations interleaved at their suspension points, the request
\* of every invocation in flight is the one built from its own tool and
\* arguments, the result of every finished invocation is the one computed
\* from its own tool, arguments and upstream response, a step of one
\* invocation changes no other invocation, and the state the invocations
\* share (the credential of the client, the registry) never changes.
C19_InvocationsDoNotInterfere ==
  /\ [](\A i \in Slots :
          inv[i].pc = "awaitFetch" =>
            inv[i].outbound =
              FetchOptions(apiKey,
                AdapterCall(inv[i].name,
                  ValidatedParams(inv[i].name, inv[i].args))))
  /\ [](\A i \in Slots :
          inv[i].pc = "done" =>
            inv[i].results = 1 /\ inv[i].result = ClientResult(apiKey, i))
  /\ [][\A i, j \in Slots :
          (i # j /\ inv'[i] # inv[i]) => inv'[j] = inv[j]]_vars
  /\ [][apiKey' = apiKey]_vars

C19_Witness ==
  /\ inv[1].pc = "awaitBody"
  /\ inv[1].name = "accept_claim"
  /\ inv[1].resp.status = 404
  /\ inv[2].pc = "awaitFetch"
  /\ inv[2].name = "get_claim_info"
  /\ inv[2].outbound.url = BaseUrl \o ApiPrefix \o "/claims/info"
  /\ dispatched = 2

AllRoutes == { "/health", "/", "/manifest", "/mcp", "/tools" }

\* C20: whenever app.listen has been called the credential check has let the
\* process through and all five routes are registered; a request is accepted
\* only by a listening server with all five routes; app.listen is reached
\* from startServer() only; and a process that exited with code 1 during
\* startup never listened and never answered a request.
C20_ListensAfterSetup ==
  /\ [](HttpStarted =>
          /\ entry = "server"
          /\ apiKey # "" \/ testMode
          /\ routes = AllRoutes)
  /\ [][served' # served => (phase = "listening" /\ routes = AllRoutes)]_vars
  /\ [][(HttpStarted' /\ ~HttpStarted) =>
          (phase = "starting" /\ phase' = "binding")]_vars
  /\ [][(phase = "starting" /\ exitCode' = 1) =>
          (phase' = "exited" /\ served' = 0)]_vars
  /\ [][phase = "exited" => phase' = "exited"]_vars
  /\ [](exitCode = 1 => served = 0 /\ http.status \notin { 200, 400, 404 })

C20_Witness ==
  /\ entry = "server"
  /\ apiKey = "secret-key"
  /\ phase = "listening"
  /\ routes = AllRoutes
  /\ served = 1
  /\ http.method = "GET"
  /\ http.path = "/health"
  /\ http.status = 200

====
